---- MODULE Spec2Model ----
(***************************************************************************)
(* Model of web/static/server.py: the development server that serves      *)
(* static files and proxies API requests to one of two backends.          *)
(*                                                                         *)
(* Text (paths, header values, bodies) is modelled as TLA+ strings, on     *)
(* which Len, \o and SubSeq act character by character.  Each inbound      *)
(* connection carries one request (the handler speaks HTTP/1.0) and is     *)
(* served by its own thread (ThreadingHTTPServer); the threads share only  *)
(* the read-only configuration.                                            *)
(***************************************************************************)
EXTENDS Integers, Sequences, FiniteSets, TLC

\* ------------------------------------------------------------------ bounds

\* Number of inbound connections handled concurrently (SpecConc).
NumConn == 2
\* Largest declared Content-Length; inbound streams are up to one byte longer.
MaxBody == 2
\* Number of segments concatenated into a path for the selector (SpecSel).
MaxSegs == 3

Conns == 1..NumConn

\* ----------------------------------------------------------- configuration

API_BASE_URL == "http://localhost:8080"

DECISION_MAKER_URL == "http://localhost:8081"

DECISION_MAKER_ENDPOINTS == << "/api/v1/pods/pids" >>

\* ----------------------------------------------------------- text helpers

\* str.startswith
StartsWith(s, p) == Len(s) >= Len(p) /\ SubSeq(s, 1, Len(p)) = p

CharAt(s, i) == SubSeq(s, i, i)

\* self.path.split('?')[0]: the text before the first '?', all of it if none.
SplitQuery0(s) ==
    LET qs == { i \in 1..Len(s) : CharAt(s, i) = "?" }
    IN  IF qs = {} THEN s
        ELSE SubSeq(s, 1, (CHOOSE i \in qs : \A j \in qs : i <= j) - 1)

Digits == << "0", "1", "2", "3", "4", "5", "6", "7", "8", "9" >>

IsDigit(ch) == \E d \in 1..10 : Digits[d] = ch

DigitVal(ch) == (CHOOSE d \in 1..10 : Digits[d] = ch) - 1

RECURSIVE DecVal(_)
DecVal(s) ==
    IF Len(s) = 0 THEN 0
    ELSE 10 * DecVal(SubSeq(s, 1, Len(s) - 1)) + DigitVal(CharAt(s, Len(s)))

\* The digits of an int() literal: the text after an optional sign.
Unsigned(s) ==
    IF Len(s) > 0 /\ CharAt(s, 1) \in { "-", "+" } THEN SubSeq(s, 2, Len(s)) ELSE s

\* int(text): whether it parses, and its value when it does.
PyIntOk(s) ==
    /\ Len(Unsigned(s)) > 0
    /\ \A i \in 1..Len(Unsigned(s)) : IsDigit(CharAt(Unsigned(s), i))

PyInt(s) ==
    IF Len(s) > 0 /\ CharAt(s, 1) = "-" THEN 0 - DecVal(Unsigned(s))
    ELSE DecVal(Unsigned(s))

\* json.dumps of a str: quotes and backslashes are escaped.
RECURSIVE JsonEscape(_)
JsonEscape(s) ==
    IF Len(s) = 0 THEN ""
    ELSE LET ch == CharAt(s, 1)
         IN  (IF ch \in { "\"", "\\" } THEN "\\" \o ch ELSE ch)
                 \o JsonEscape(SubSeq(s, 2, Len(s)))

\* json.dumps({'success': False, 'error': msg}).encode()
ErrorJson(msg) == "{\"success\": false, \"error\": \"" \o JsonEscape(msg) \o "\"}"

\* ---------------------------------------------------------------- headers

\* Headers are sequences of <<name, value>> pairs.
HasHeader(h, name) == \E i \in 1..Len(h) : h[i][1] = name

GetHeader(h, name, default) ==
    IF HasHeader(h, name)
    THEN h[CHOOSE i \in 1..Len(h) :
             h[i][1] = name /\ \A j \in 1..Len(h) : h[j][1] = name => i <= j][2]
    ELSE default

\* An absent body (None), as opposed to an empty one (b'').
None == [present |-> FALSE, bytes |-> ""]

Some(b) == [present |-> TRUE, bytes |-> b]

\* The byte 0x7f (DEL) is not spellable in a string literal; "~" stands for it
\* in the paths of this model.
DEL == "~"

\* http.client's _validate_path: a request target with a control character is
\* refused (InvalidURL) before anything is sent.
HasControlChar(s) == \E i \in 1..Len(s) : CharAt(s, i) = DEL

\* repr() of a str: single-quoted, DEL shown as \x7f.
RECURSIVE ReprChars(_)
ReprChars(s) ==
    IF Len(s) = 0 THEN ""
    ELSE (IF CharAt(s, 1) = DEL THEN "\\x7f" ELSE CharAt(s, 1))
             \o ReprChars(SubSeq(s, 2, Len(s)))

PyRepr(s) == "'" \o ReprChars(s) \o "'"

InvalidURLMessage(path) ==
    "URL can't contain control characters. " \o PyRepr(path)
        \o " (found at least " \o PyRepr(DEL) \o ")"

\* -------------------------------------------------------- Backend Selector

\* A selector that matches the whole path instead of a prefix.
_get_backend_url_exact(path) ==
    IF \E e \in 1..Len(DECISION_MAKER_ENDPOINTS) :
           SplitQuery0(path) = DECISION_MAKER_ENDPOINTS[e]
    THEN DECISION_MAKER_URL
    ELSE API_BASE_URL

\* ProxyHandler._get_backend_url
_get_backend_url(path) ==
    LET path_without_query == SplitQuery0(path)
    IN  IF \E e \in 1..Len(DECISION_MAKER_ENDPOINTS) :
               StartsWith(path_without_query, DECISION_MAKER_ENDPOINTS[e])
        THEN DECISION_MAKER_URL
        ELSE API_BASE_URL

\* ------------------------------------------------------------------ Router

\* A router that forgets the slash that ends "/api/".
IsApiPath_noslash(path) ==
    \/ StartsWith(path, "/api")
    \/ StartsWith(path, "/health")
    \/ StartsWith(path, "/version")

\* The condition of do_GET: the request is proxied, not served from disk.
IsApiPath(path) ==
    \/ StartsWith(path, "/api/")
    \/ StartsWith(path, "/health")
    \/ StartsWith(path, "/version")

\* -------------------------------------------------------------------- CORS

\* ProxyHandler.send_cors_headers
send_cors_headers ==
    << << "Access-Control-Allow-Origin", "*" >>,
       << "Access-Control-Allow-Methods", "GET, POST, PUT, DELETE, OPTIONS" >>,
       << "Access-Control-Allow-Headers", "Content-Type, Authorization" >>,
       << "Access-Control-Max-Age", "86400" >> >>

\* What is written on the inbound connection, in chunks: a status line with its
\* header block (send_response .. end_headers), or a body (wfile.write).
HeadChunk(status, headers) ==
    [kind |-> "head", status |-> status, headers |-> headers, bytes |-> ""]

BodyChunk(bytes) ==
    [kind |-> "body", status |-> 0, headers |-> << >>, bytes |-> bytes]

\* A preflight answer without the call of send_cors_headers.
OptionsResponse_nocors == << HeadChunk(204, << >>) >>

\* do_OPTIONS: send_response(204), send_cors_headers(), end_headers().
OptionsResponse == << HeadChunk(204, send_cors_headers) >>

\* The success path's response: status, CORS, Content-Type, Content-Length, body.
RelayContentType(response) ==
    GetHeader(response.headers, "Content-Type", "application/json")

RelayResponse(response) ==
    << HeadChunk(response.status,
                 send_cors_headers
                     \o << << "Content-Type", RelayContentType(response) >>,
                           << "Content-Length", ToString(Len(response.body)) >> >>),
       BodyChunk(response.body) >>

\* A handler that reports a backend error status as a failure of its own.
HTTPErrorResponse_synth(e) ==
    << HeadChunk(500, send_cors_headers
                     \o << << "Content-Type", "application/json" >>,
                           << "Content-Length", ToString(Len("HTTP Error")) >> >>),
       BodyChunk("HTTP Error") >>

\* The HTTPError handler's response: the backend's code and body.
ErrorContentType(e) == "application/json"

HTTPErrorResponse(e) ==
    << HeadChunk(e.status,
                 send_cors_headers
                     \o << << "Content-Type", ErrorContentType(e) >>,
                           << "Content-Length", ToString(Len(e.body)) >> >>),
       BodyChunk(e.body) >>

\* Synthesized responses without the call of send_cors_headers.
SynthResponse_nocors(status, error_msg) ==
    << HeadChunk(status,
                 << << "Content-Type", "application/json" >>,
                    << "Content-Length", ToString(Len(error_msg)) >> >>),
       BodyChunk(error_msg) >>

\* The URLError and Exception handlers' responses: a synthesized JSON body.
SynthResponse(status, error_msg) ==
    << HeadChunk(status,
                 send_cors_headers
                     \o << << "Content-Type", "application/json" >>,
                           << "Content-Length", ToString(Len(error_msg)) >> >>),
       BodyChunk(error_msg) >>

URLErrorResponse(reason) ==
    SynthResponse(503, ErrorJson("API server unreachable: " \o reason))

ExceptionResponse(message) ==
    SynthResponse(500, ErrorJson("Proxy error: " \o message))

\* --------------------------------------------------- building the request

\* Lines 78-82: the body read from the inbound stream; rfile.read(n) returns the
\* first n bytes, fewer if the stream ends before.
ContentLengthText(headers) == GetHeader(headers, "Content-Length", "0")

ReadBodyRaises(method, headers) ==
    method \in { "POST", "PUT" } /\ ~PyIntOk(ContentLengthText(headers))

ReadBody(method, headers, stream) ==
    IF method \in { "POST", "PUT" } /\ PyInt(ContentLengthText(headers)) > 0
    THEN LET n == PyInt(ContentLengthText(headers))
         IN  Some(SubSeq(stream, 1, IF n <= Len(stream) THEN n ELSE Len(stream)))
    ELSE None

\* A forwarder that passes every inbound header on.
ForwardHeaders_all(headers) == headers

\* Lines 85-89: only Content-Type and Authorization are copied.
ForwardHeaders(headers) ==
    (IF HasHeader(headers, "Content-Type")
     THEN << << "Content-Type", GetHeader(headers, "Content-Type", "") >> >>
     ELSE << >>)
    \o
    (IF HasHeader(headers, "Authorization")
     THEN << << "Authorization", GetHeader(headers, "Authorization", "") >> >>
     ELSE << >>)

\* Line 75
OutboundUrl(backend_url, path) == backend_url \o path

\* ------------------------------------------------------------------ inputs

Methods == { "GET", "POST", "PUT", "DELETE", "OPTIONS" }

Paths ==
    { "/api/v1/pods/pids?x=1", "/api/v1/jobs",
      "/api/v1/jobs?next=/api/v1/pods/pids", "/api/a~b", "/API/v1/jobs",
      "/version?v=1", "/index.html", "/apix" }

Opt(name, values) == { << >> } \cup { << << name, v >> >> : v \in values }

\* The Content-Length values a client may declare: a count, or text that is none.
ContentLengths == { ToString(n) : n \in 0..MaxBody } \cup { "abc", "-1" }

InboundHeaders ==
    { tr \o ct \o au \o cl :
        tr \in Opt("X-Trace-Id", { "t1" }),
        ct \in Opt("Content-Type", { "text/plain" }),
        au \in Opt("Authorization", { "Bearer k" }),
        cl \in Opt("Content-Length", ContentLengths) }

\* The bytes that follow the inbound headers, up to one more than MaxBody.
Streams == { SubSeq("{\"name\":\"x\"}", 1, n) : n \in 0..(MaxBody + 1) }

Requests ==
    [method : Methods, path : Paths, headers : InboundHeaders, stream : Streams]

\* What the backend does with one outbound request: it answers with a status,
\* headers and a body (a body that is not empty may break off while being read),
\* or the connection to it fails (URLError), or it accepts the request and sends
\* no response.
BackendHeaders ==
    { << << "Access-Control-Allow-Origin", "http://evil.example" >> >> \o ct :
        ct \in Opt("Content-Type", { "text/html" }) }

BackendBehaviours ==
    { r \in { [kind |-> "response", status |-> st, headers |-> h, body |-> b,
                complete |-> ok, cause |-> ""] :
                 st \in { 200, 404, 503 }, h \in BackendHeaders,
                 b \in { "", "{\"ok\":true}" }, ok \in BOOLEAN } :
        r.complete \/ r.body # "" }
    \cup
    { [kind |-> k, status |-> 0, headers |-> << >>, body |-> "",
       complete |-> FALSE, cause |-> "timed out"] : k \in { "refused", "noresponse" } }
    \cup
    { [kind |-> "refused", status |-> 0, headers |-> << >>, body |-> "",
       complete |-> FALSE, cause |-> "[Errno 111] Connection refused"],
      [kind |-> "noresponse", status |-> 0, headers |-> << >>, body |-> "",
       complete |-> FALSE, cause |-> "Remote end closed connection without response"] }

\* The smaller inputs of the concurrent specification.
ConcRequests ==
    { r \in Requests :
        /\ r.method \in { "GET", "POST", "OPTIONS" }
        /\ r.path \in { "/api/v1/jobs", "/index.html" }
        /\ r.stream = ""
        /\ r.headers \in { << >>, << << "Content-Length", "abc" >> >> } }

ConcBehaviours ==
    { b \in BackendBehaviours :
        /\ b.complete \/ b.kind # "response"
        /\ b.body = ""
        /\ b.status \in { 0, 200 }
        /\ b.cause \in { "", "timed out" }
        /\ ~HasHeader(b.headers, "Content-Type") }

\* ------------------------------------------------------------------- state

VARIABLES
    pc,        \* per connection: where its handler thread is
    req,       \* per connection: the inbound request
    frame,     \* per connection: proxy_request's locals
    outbound,  \* per connection: the requests sent to a backend
    reply,     \* per connection: what the backend did with the outbound request
    exc,       \* per connection: str() of the exception being handled
    wire,      \* per connection: the chunks written on the inbound connection
    broken,    \* per connection: a write on the inbound connection has failed
    trace,     \* per connection: the methods called, in order
    selPath,   \* the selector's input (SpecSel)
    selResult  \* the selector's result (SpecSel)

vars ==
    << pc, req, frame, outbound, reply, exc, wire, broken, trace, selPath, selResult >>

connVars == << pc, req, frame, outbound, reply, exc, wire, broken, trace >>

NoRequest == [method |-> "", path |-> "", headers |-> << >>, stream |-> ""]

NoFrame ==
    [method |-> "", backend_url |-> "", url |-> "", body |-> None, headers |-> << >>]

NoReply ==
    [kind |-> "none", status |-> 0, headers |-> << >>, body |-> "",
     complete |-> FALSE, cause |-> ""]

InitConns ==
    /\ pc = [c \in Conns |-> "idle"]
    /\ req = [c \in Conns |-> NoRequest]
    /\ frame = [c \in Conns |-> NoFrame]
    /\ outbound = [c \in Conns |-> << >>]
    /\ reply = [c \in Conns |-> NoReply]
    /\ exc = [c \in Conns |-> ""]
    /\ wire = [c \in Conns |-> << >>]
    /\ broken = [c \in Conns |-> FALSE]
    /\ trace = [c \in Conns |-> << >>]

Init == InitConns /\ selPath = "" /\ selResult = ""

\* ----------------------------------------------------------------- actions

Called(c, names) == trace' = [trace EXCEPT ![c] = @ \o names]

\* How many of n successive writes on the inbound connection succeed: the client
\* may go away before any of them, and once a write has failed every later one
\* fails (the socket stays broken).
WriteOutcomes(c, n) == IF broken[c] THEN { 0 } ELSE 0..n

Written(c, chunks, k) ==
    /\ wire' = [wire EXCEPT ![c] = @ \o SubSeq(chunks, 1, k)]
    /\ broken' = [broken EXCEPT ![c] = @ \/ k < Len(chunks)]

\* handle_one_request: the request line and headers of a connection are parsed.
Accept(c, R) ==
    /\ pc[c] = "idle"
    /\ \E r \in R : req' = [req EXCEPT ![c] = r]
    /\ pc' = [pc EXCEPT ![c] = "parsed"]
    /\ UNCHANGED << frame, outbound, reply, exc, wire, broken, trace, selPath, selResult >>

\* do_OPTIONS: a failed write leaves the handler by an exception.
do_OPTIONS(c) ==
    /\ pc[c] = "parsed"
    /\ req[c].method = "OPTIONS"
    /\ \E k \in WriteOutcomes(c, Len(OptionsResponse)) :
        /\ Written(c, OptionsResponse, k)
        /\ pc' = [pc EXCEPT ![c] = IF k = Len(OptionsResponse) THEN "done" ELSE "crashed"]
    /\ Called(c, << "do_OPTIONS", "send_response" >>)
    /\ UNCHANGED << req, frame, outbound, reply, exc, selPath, selResult >>

\* self.proxy_request(method, self._get_backend_url()): the call, up to line 74.
CallProxy(c, handler, method) ==
    /\ frame' = [frame EXCEPT ![c] =
                    [NoFrame EXCEPT !.method = method,
                                    !.backend_url = _get_backend_url(req[c].path)]]
    /\ pc' = [pc EXCEPT ![c] = "proxy"]
    /\ Called(c, << handler, "_get_backend_url", "proxy_request" >>)
    /\ UNCHANGED << req, outbound, reply, exc, wire, broken, selPath, selResult >>

do_GET(c) ==
    /\ pc[c] = "parsed"
    /\ req[c].method = "GET"
    /\ IF IsApiPath(req[c].path)
       THEN CallProxy(c, "do_GET", "GET")
       ELSE \* super().do_GET(): the static-file collaborator takes over
            /\ pc' = [pc EXCEPT ![c] = "static"]
            /\ Called(c, << "do_GET", "super.do_GET" >>)
            /\ UNCHANGED << req, frame, outbound, reply, exc, wire, broken,
                            selPath, selResult >>

do_POST(c) ==
    /\ pc[c] = "parsed"
    /\ req[c].method = "POST"
    /\ CallProxy(c, "do_POST", "POST")

do_PUT(c) ==
    /\ pc[c] = "parsed"
    /\ req[c].method = "PUT"
    /\ CallProxy(c, "do_PUT", "PUT")

do_DELETE(c) ==
    /\ pc[c] = "parsed"
    /\ req[c].method = "DELETE"
    /\ CallProxy(c, "do_DELETE", "DELETE")

\* proxy_request, lines 75-89: the URL, the body and the headers.  int() of a
\* Content-Length that is no number raises outside the try statement: the
\* exception leaves the handler and the connection is closed with no response.
ProxyPrepare(c) ==
    /\ pc[c] = "proxy"
    /\ LET f == frame[c]
           url == OutboundUrl(f.backend_url, req[c].path)
       IN  IF ReadBodyRaises(f.method, req[c].headers)
           THEN /\ frame' = [frame EXCEPT ![c].url = url]
                /\ exc' = [exc EXCEPT ![c] =
                              "invalid literal for int() with base 10: "
                                  \o PyRepr(ContentLengthText(req[c].headers))]
                /\ pc' = [pc EXCEPT ![c] = "crashed"]
           ELSE /\ frame' = [frame EXCEPT
                                ![c].url = url,
                                ![c].body = ReadBody(f.method, req[c].headers, req[c].stream),
                                ![c].headers = ForwardHeaders(req[c].headers)]
                /\ exc' = exc
                /\ pc' = [pc EXCEPT ![c] = "built"]
    /\ UNCHANGED << req, outbound, reply, wire, broken, trace, selPath, selResult >>

\* Which except clause, if any, takes over after urlopen and response.read().
AfterOpen(b) ==
    CASE b.kind = "refused" -> "except_URLError"
      [] b.kind = "noresponse" -> "except_Exception"
      [] b.kind = "response" /\ b.status >= 400 -> "except_HTTPError"
      [] b.kind = "response" /\ b.status < 400 /\ ~b.complete -> "except_Exception"
      [] OTHER -> "relay"

\* proxy_request, lines 92-94: Request(...), urlopen(req, timeout=30) and
\* response.read().  A target with a control character is refused before
\* anything is sent; otherwise the request goes out once and the backend's
\* behaviour decides how the call ends.
ProxyOpen(c, B) ==
    /\ pc[c] = "built"
    /\ LET f == frame[c]
       IN  IF HasControlChar(req[c].path)
           THEN /\ exc' = [exc EXCEPT ![c] = InvalidURLMessage(req[c].path)]
                /\ pc' = [pc EXCEPT ![c] = "except_Exception"]
                /\ UNCHANGED << outbound, reply >>
           ELSE \E b \in B :
                /\ outbound' = [outbound EXCEPT ![c] =
                       Append(@, [method |-> f.method, url |-> f.url,
                                  headers |-> f.headers, body |-> f.body])]
                /\ reply' = [reply EXCEPT ![c] = b]
                /\ exc' = [exc EXCEPT ![c] =
                       IF b.kind = "response"
                       THEN (IF AfterOpen(b) = "except_Exception" THEN "timed out" ELSE "")
                       ELSE b.cause]
                /\ pc' = [pc EXCEPT ![c] = AfterOpen(b)]
    /\ Called(c, << "urlopen" >>)
    /\ UNCHANGED << req, frame, wire, broken, selPath, selResult >>

\* proxy_request, lines 96-105, inside the try statement: a write that fails
\* raises an OSError, which the except Exception clause catches.
ProxyRelay(c) ==
    /\ pc[c] = "relay"
    /\ \E k \in WriteOutcomes(c, 2) :
        /\ Written(c, RelayResponse(reply[c]), k)
        /\ pc' = [pc EXCEPT ![c] = IF k = 2 THEN "done" ELSE "except_Exception"]
        /\ exc' = [exc EXCEPT ![c] = IF k = 2 THEN @ ELSE "[Errno 32] Broken pipe"]
    /\ Called(c, << "send_response" >>)
    /\ UNCHANGED << req, frame, outbound, reply, selPath, selResult >>

\* An except clause's response; an exception raised inside the clause (a failed
\* write, a failed e.read()) leaves the handler.
Respond(c, chunks) ==
    /\ \E k \in WriteOutcomes(c, 2) :
        /\ Written(c, chunks, k)
        /\ pc' = [pc EXCEPT ![c] = IF k = 2 THEN "done" ELSE "crashed"]
    /\ Called(c, << "send_response" >>)
    /\ UNCHANGED << req, frame, outbound, reply, exc, selPath, selResult >>

\* lines 107-114
ExceptHTTPError(c) ==
    /\ pc[c] = "except_HTTPError"
    /\ IF reply[c].complete
       THEN Respond(c, HTTPErrorResponse(reply[c]))
       ELSE \* e.read() raises
            /\ pc' = [pc EXCEPT ![c] = "crashed"]
            /\ exc' = [exc EXCEPT ![c] = "timed out"]
            /\ UNCHANGED << req, frame, outbound, reply, wire, broken, trace,
                            selPath, selResult >>

\* lines 116-126
ExceptURLError(c) ==
    /\ pc[c] = "except_URLError"
    /\ Respond(c, URLErrorResponse(exc[c]))

\* lines 128-138
ExceptException(c) ==
    /\ pc[c] = "except_Exception"
    /\ Respond(c, ExceptionResponse(exc[c]))

\* ---------------------------------------------------------- specifications

\* One connection, every input.
Solo == { c \in Conns : \A d \in Conns : c <= d }

Next ==
    \E c \in Solo :
        \/ Accept(c, Requests)
        \/ do_OPTIONS(c)
        \/ do_GET(c)
        \/ do_POST(c)
        \/ do_PUT(c)
        \/ do_DELETE(c)
        \/ ProxyPrepare(c)
        \/ ProxyOpen(c, BackendBehaviours)
        \/ ProxyRelay(c)
        \/ ExceptHTTPError(c)
        \/ ExceptURLError(c)
        \/ ExceptException(c)

Spec == Init /\ [][Next]_vars

\* NumConn connections handled concurrently, the threads interleaved.
NextConc ==
    \E c \in Conns :
        \/ Accept(c, ConcRequests)
        \/ do_OPTIONS(c)
        \/ do_GET(c)
        \/ do_POST(c)
        \/ ProxyPrepare(c)
        \/ ProxyOpen(c, ConcBehaviours)
        \/ ProxyRelay(c)
        \/ ExceptURLError(c)
        \/ ExceptException(c)

SpecConc == Init /\ [][NextConc]_vars

\* The Backend Selector alone, on paths built from segments.
Segments ==
    { "/api/v1/pods/pids", "/api/v1/pods", "/pids", "/API/V1/PODS/PIDS",
      "/api/", "?", "s", "/health" }

RECURSIVE PathsOf(_)
PathsOf(n) ==
    IF n = 0 THEN { "" }
    ELSE PathsOf(n - 1) \cup { p \o s : p \in PathsOf(n - 1), s \in Segments }

InitSel ==
    /\ InitConns
    /\ selPath \in { p \in PathsOf(MaxSegs) : StartsWith(p, "/") }
    /\ selResult = ""

Select ==
    /\ selResult = ""
    /\ selResult' = _get_backend_url(selPath)
    /\ UNCHANGED << connVars, selPath >>

NextSel == Select

SpecSel == InitSel /\ [][NextSel]_vars

\* ------------------------------------------------------------------ claims

\* The vocabulary of the claims, stated from the specification and not through
\* the operators above.
PrimaryBackend == "http://localhost:8080"

DecisionBackend == "http://localhost:8081"

DecisionPrefixes == { "/api/v1/pods/pids" }

ApiPrefixes == { "/api/", "/health", "/version" }

CorsExpected ==
    << << "Access-Control-Allow-Origin", "*" >>,
       << "Access-Control-Allow-Methods", "GET, POST, PUT, DELETE, OPTIONS" >>,
       << "Access-Control-Allow-Headers", "Content-Type, Authorization" >>,
       << "Access-Control-Max-Age", "86400" >> >>

\* The number of characters of p before its first '?'.
QueryStart(p) ==
    Cardinality({ i \in 1..Len(p) : \A j \in 1..i : CharAt(p, j) # "?" })

\* e is, character for character, the beginning of the first n characters of p.
BeginsWithin(p, n, e) ==
    Len(e) <= n /\ \A i \in 1..Len(e) : CharAt(p, i) = CharAt(e, i)

MatchesDecisionPrefix(p) ==
    \E e \in DecisionPrefixes : BeginsWithin(p, QueryStart(p), e)

MatchesApiPrefix(p) == \E e \in ApiPrefixes : BeginsWithin(p, Len(p), e)

ExpectedBackend(p) ==
    IF MatchesDecisionPrefix(p) THEN DecisionBackend ELSE PrimaryBackend

InTrace(c, name) == \E i \in 1..Len(trace[c]) : trace[c][i] = name

CountInTrace(c, name) == Cardinality({ i \in 1..Len(trace[c]) : trace[c][i] = name })

Forwarded(c) == InTrace(c, "proxy_request")

Ended(c) == pc[c] \in { "done", "crashed" }

HeadsOf(c) == { i \in 1..Len(wire[c]) : wire[c][i].kind = "head" }

BodiesOf(c) == { i \in 1..Len(wire[c]) : wire[c][i].kind = "body" }

HeaderValues(h, name) == { h[i][2] : i \in { j \in 1..Len(h) : h[j][1] = name } }

HeaderCount(h, name) == Cardinality({ j \in 1..Len(h) : h[j][1] = name })

\* The decimal text of a header value denotes n.
Denotes(text, n) == text = ToString(n)

\* C1: after the selector ran on a path, its result is one of the two configured
\* origins, and it is the decision backend exactly when the path's part before
\* the first '?' begins, case-sensitively, with a decision-backend prefix.
C1_SelectorByPrefix ==
    selResult # "" =>
        /\ selResult \in { PrimaryBackend, DecisionBackend }
        /\ (selResult = DecisionBackend) <=> MatchesDecisionPrefix(selPath)

C1_Witness == selPath = "/api/v1/pods/pids?/api/" /\ selResult = DecisionBackend

\* C2: an OPTIONS request, on any path, never reaches the selector, the forwarder
\* or a backend, and once answered its response is the status 204 with exactly
\* the four CORS headers and no body.
C2_OptionsPreflight ==
    \A c \in Conns :
        req[c].method = "OPTIONS" =>
            /\ outbound[c] = << >>
            /\ ~InTrace(c, "_get_backend_url")
            /\ ~InTrace(c, "proxy_request")
            /\ ~InTrace(c, "urlopen")
            /\ \A i \in HeadsOf(c) : wire[c][i].status = 204
            /\ BodiesOf(c) = {}
            /\ pc[c] = "done" =>
                   /\ Len(wire[c]) = 1
                   /\ wire[c][1].kind = "head"
                   /\ wire[c][1].headers = CorsExpected

C2_Witness ==
    \E c \in Conns :
        /\ req[c].method = "OPTIONS"
        /\ req[c].path = "/api/v1/pods/pids?x=1"
        /\ pc[c] = "done"
        /\ Len(wire[c]) = 1

\* C3: every status line and header block the forwarder writes carries each of
\* the four CORS headers exactly once, with its fixed value, whatever the
\* backend's own headers say.
C3_CorsOnEveryResponse ==
    \A c \in Conns :
        Forwarded(c) =>
            \A i \in HeadsOf(c) :
                \A k \in 1..Len(CorsExpected) :
                    /\ HeaderCount(wire[c][i].headers, CorsExpected[k][1]) = 1
                    /\ HeaderValues(wire[c][i].headers, CorsExpected[k][1])
                           = { CorsExpected[k][2] }

C3_Witness ==
    \E c \in Conns :
        /\ pc[c] = "done"
        /\ reply[c].kind = "response"
        /\ HeaderValues(reply[c].headers, "Access-Control-Allow-Origin")
               = { "http://evil.example" }
        /\ HeadsOf(c) = { 1 }
        /\ HeaderValues(wire[c][1].headers, "Access-Control-Allow-Origin") = { "*" }

\* The backend returned a whole HTTP response for the outbound request.
BackendAnswered(c) == reply[c].kind = "response" /\ reply[c].complete

\* C4: once the backend has returned a response, whatever its status, nothing
\* but that response is written to the caller: its status, a Content-Length
\* that denotes the length of its body, and its body; a handler that returns
\* has written exactly that status line, header block and body.
C4_RelayVerbatim ==
    \A c \in Conns :
        BackendAnswered(c) =>
            /\ Cardinality(HeadsOf(c)) <= 1
            /\ \A i \in HeadsOf(c) :
                /\ wire[c][i].status = reply[c].status
                /\ HeaderCount(wire[c][i].headers, "Content-Length") = 1
                /\ \A v \in HeaderValues(wire[c][i].headers, "Content-Length") :
                       Denotes(v, Len(reply[c].body))
            /\ \A i \in BodiesOf(c) : wire[c][i].bytes = reply[c].body
            /\ pc[c] = "done" =>
                   /\ Len(wire[c]) = 2
                   /\ wire[c][1].kind = "head"
                   /\ wire[c][2].kind = "body"

C4_Witness ==
    \E c \in Conns :
        /\ pc[c] = "done"
        /\ BackendAnswered(c)
        /\ reply[c].status = 503
        /\ wire[c][1].status = 503
        /\ wire[c][2].bytes = "{\"ok\":true}"

\* The outbound call failed at the transport level: no connection, or no
\* (whole) response within the timeout.
TransportFailed(c) ==
    \/ reply[c].kind \in { "refused", "noresponse" }
    \/ reply[c].kind = "response" /\ ~reply[c].complete

IsSynthesized(c, status, lead) ==
    /\ Len(wire[c]) = 2
    /\ wire[c][1].kind = "head"
    /\ wire[c][1].status = status
    /\ wire[c][2].kind = "body"
    /\ StartsWith(wire[c][2].bytes, "{\"success\": false, \"error\": \"" \o lead)
    /\ SubSeq(wire[c][2].bytes, Len(wire[c][2].bytes) - 1, Len(wire[c][2].bytes)) = "\"}"

\* C5: a forwarded request whose outbound call fails at the transport level, at
\* any point of the call, is answered 503 with the body
\* {"success": false, "error": "API server unreachable: <cause>"}.
C5_TransportFailureIs503 ==
    \A c \in Conns :
        (TransportFailed(c) /\ Ended(c) /\ ~broken[c]) =>
            IsSynthesized(c, 503, "API server unreachable: ")

\* The body length a request declares: the count its Content-Length denotes,
\* none when the header is absent or denotes no positive count.
DeclaredLengths(c) ==
    { n \in 1..(MaxBody + 1) :
        \E v \in HeaderValues(req[c].headers, "Content-Length") : Denotes(v, n) }

ExpectedBody(c) ==
    IF req[c].method \in { "POST", "PUT" } /\ DeclaredLengths(c) # {}
    THEN { [present |-> TRUE, bytes |-> b] :
             b \in { SubSeq(req[c].stream, 1, n) :
                       n \in { m \in DeclaredLengths(c) : m <= Len(req[c].stream) } }
                   \cup { req[c].stream :
                            m \in { m \in DeclaredLengths(c) : m > Len(req[c].stream) } } }
    ELSE { [present |-> FALSE, bytes |-> ""] }

C7_RouterDispatch ==
    \A c \in Conns :
        pc[c] \notin { "idle", "parsed" } =>
            /\ (req[c].method \in { "GET", "POST", "PUT", "DELETE" }
                    /\ MatchesApiPrefix(req[c].path)) =>
                   /\ CountInTrace(c, "proxy_request") = 1
                   /\ frame[c].method = req[c].method
                   /\ frame[c].backend_url = ExpectedBackend(req[c].path)
            /\ (req[c].method = "GET" /\ ~MatchesApiPrefix(req[c].path)) =>
                   /\ pc[c] = "static"
                   /\ trace[c] = << "do_GET", "super.do_GET" >>
                   /\ outbound[c] = << >>
                   /\ wire[c] = << >>

C7_Witness ==
    \E c \in Conns :
        /\ req[c].method = "DELETE"
        /\ req[c].path = "/version?v=1"
        /\ pc[c] = "done"
        /\ Len(outbound[c]) = 1
        /\ outbound[c][1].method = "DELETE"
        /\ outbound[c][1].url = "http://localhost:8080/version?v=1"

\* A step of forwarding fails locally: the inbound Content-Length of a POST or
\* PUT is no number, or the outbound request cannot be constructed for the
\* inbound path.
LocalFailure(c) ==
    \/ /\ req[c].method \in { "POST", "PUT" }
       /\ "abc" \in HeaderValues(req[c].headers, "Content-Length")
    \/ \E i \in 1..Len(req[c].path) : CharAt(req[c].path, i) = "~"

\* C8: a forwarded request that meets a local failure at any step of forwarding
\* is answered 500 with the body
\* {"success": false, "error": "Proxy error: <cause>"}.
C8_LocalFailureIs500 ==
    \A c \in Conns :
        (Forwarded(c) /\ LocalFailure(c) /\ Ended(c) /\ ~broken[c]) =>
            IsSynthesized(c, 500, "Proxy error: ")

\* C9: the Content-Type of a relayed response, on the success path and on the
\* backend-error path alike, is the backend's when it supplied one and
\* application/json when it did not.
C9_ContentTypeRelayed ==
    \A c \in Conns :
        (BackendAnswered(c) /\ pc[c] = "done") =>
            HeaderValues(wire[c][1].headers, "Content-Type")
                = (IF HeaderCount(reply[c].headers, "Content-Type") > 0
                   THEN HeaderValues(reply[c].headers, "Content-Type")
                   ELSE { "application/json" })

\* C10: in every interleaving of the handlers, a forwarded request that has
\* ended caused at most one outbound request and exactly one response: one
\* status line and header block were produced, never none and never a second,
\* and unless the client went away they and one body are on its connection.
C10_OneAttemptOneResponse ==
    \A c \in Conns :
        (Forwarded(c) /\ Ended(c)) =>
            /\ Len(outbound[c]) <= 1
            /\ CountInTrace(c, "send_response") = 1
            /\ ~broken[c] =>
                   /\ Len(wire[c]) = 2
                   /\ wire[c][1].kind = "head"
                   /\ wire[c][2].kind = "body"

====
